---- MODULE Spec2Model ----
(***************************************************************************)
(* Model of the streaming import/validation pipeline of the mobility app:  *)
(* DataValidator and MobilityDataImporter (services/generic_importer.py)   *)
(* writing GPSPoint, ImportJob and ValidationError rows (models.py).       *)
(***************************************************************************)
EXTENDS Integers, Sequences, FiniteSets, TLC

\* ------------------------------------------------------------------------
\* Bounds of the model
\* ------------------------------------------------------------------------
\* longest source file, in lines after the CSV header
MaxLines == 3
\* MobilityDataImporter.batch_size as used by the model's importer
BatchSize == 2
\* longest batch handed to a stand-alone flush
MaxBatch == 3

\* ------------------------------------------------------------------------
\* Values
\* ------------------------------------------------------------------------
\* Python None, as seen by dict.get() on an absent key
None == "<None>"
\* no parsed datetime
NoTime == -1

STATUS_PENDING == "pending"
STATUS_PROCESSING == "processing"
STATUS_COMPLETED == "completed"
STATUS_FAILED == "failed"
STATUS_CANCELLED == "cancelled"
STATUS_CHOICES ==
    {STATUS_PENDING, STATUS_PROCESSING, STATUS_COMPLETED, STATUS_FAILED, STATUS_CANCELLED}

\* float(): the decimal strings of the model, in units of 1e-5 degree;
\* any other string raises ValueError
FloatTable ==
    [s \in {"116.40734", "39.90469", "999.0", "120.0", "35.0", "180.0", "90.0", "91.0",
            "25.5", "-10.0", "250.0"} |->
        CASE s = "116.40734" -> 11640734
          [] s = "39.90469" -> 3990469
          [] s = "999.0" -> 99900000
          [] s = "120.0" -> 12000000
          [] s = "35.0" -> 3500000
          [] s = "180.0" -> 18000000
          [] s = "90.0" -> 9000000
          [] s = "91.0" -> 9100000
          [] s = "25.5" -> 2550000
          [] s = "-10.0" -> -1000000
          [] s = "250.0" -> 25000000]
IsFloat(s) == s \in DOMAIN FloatTable
Float(s) == FloatTable[s]

\* Formats with the month-first format tried before the day-first format
Formats_monthFirst ==
    << "%Y-%m-%d %H:%M:%S", "%Y-%m-%dT%H:%M:%S", "%Y-%m-%d %H:%M:%S.%f",
       "%m/%d/%Y %H:%M:%S", "%d/%m/%Y %H:%M:%S" >>

\* the formats tried by validate_timestamp, in order
Formats ==
    << "%Y-%m-%d %H:%M:%S", "%Y-%m-%dT%H:%M:%S", "%Y-%m-%d %H:%M:%S.%f",
       "%d/%m/%Y %H:%M:%S", "%m/%d/%Y %H:%M:%S" >>

\* datetime.strptime on the timestamp strings of the model: the instant, in
\* minutes since 2024-01-01 00:00, or NoTime when strptime raises ValueError
Strptime(s, fmt) ==
    CASE s = "2024-01-15 08:00:00" /\ fmt = "%Y-%m-%d %H:%M:%S" -> 20640
      [] s = "2024-01-15 08:05:00" /\ fmt = "%Y-%m-%d %H:%M:%S" -> 20645
      [] s = "2024-01-15T08:00:00" /\ fmt = "%Y-%m-%dT%H:%M:%S" -> 20640
      [] s = "2024-01-15 08:00:00.500000" /\ fmt = "%Y-%m-%d %H:%M:%S.%f" -> 20640
      [] s = "01/02/2024 08:00:00" /\ fmt = "%d/%m/%Y %H:%M:%S" -> 45120
      [] s = "01/02/2024 08:00:00" /\ fmt = "%m/%d/%Y %H:%M:%S" -> 1920
      [] s = "13/01/2024 08:00:00" /\ fmt = "%d/%m/%Y %H:%M:%S" -> 17760
      [] s = "01/13/2024 08:00:00" /\ fmt = "%m/%d/%Y %H:%M:%S" -> 17760
      [] OTHER -> NoTime

\* datetime objects, each with its instant
DatetimeTable ==
    [d \in {"<datetime 2024-01-15 08:00>", "<datetime 2024-01-15 08:05>"} |->
        IF d = "<datetime 2024-01-15 08:00>" THEN 20640 ELSE 20645]

\* dict.get(key)
Get(d, k) == IF k \in DOMAIN d THEN d[k] ELSE None

\* ------------------------------------------------------------------------
\* DataValidator
\* ------------------------------------------------------------------------
\* DataValidator.__init__: the configuration with its defaults
DataValidator(config) ==
    [strict_mode |-> IF "strict_mode" \in DOMAIN config THEN config.strict_mode ELSE FALSE,
     coordinate_bounds |->
        IF "coordinate_bounds" \in DOMAIN config THEN config.coordinate_bounds ELSE <<>>,
     speed_threshold |->
        IF "speed_threshold" \in DOMAIN config THEN config.speed_threshold ELSE 200]

\* the importer before configure_validator was called
NoValidator == [strict_mode |-> FALSE, coordinate_bounds |-> <<>>, speed_threshold |-> 0]

BeijingBounds == <<11625000, 3980000, 11660000, 4005000>>

\* validate_coordinates without the range check of the latitude
validate_coordinates_noLatRange(v, lon, lat) ==
    LET range ==
            IF ~(-18000000 <= lon /\ lon <= 18000000)
                THEN <<"Longitude out of valid range [-180, 180]">> ELSE <<>>
        b == v.coordinate_bounds
    IN  IF b # <<>> /\ Len(range) = 0
            THEN IF ~(b[1] <= lon /\ lon <= b[3] /\ b[2] <= lat /\ lat <= b[4])
                    THEN <<"Coordinates outside allowed bounds">>
                    ELSE <<>>
            ELSE range

\* validate_coordinates checking the box whatever the range check found
validate_coordinates_alwaysBox(v, lon, lat) ==
    LET range ==
            (IF ~(-18000000 <= lon /\ lon <= 18000000)
                THEN <<"Longitude out of valid range [-180, 180]">> ELSE <<>>)
            \o (IF ~(-9000000 <= lat /\ lat <= 9000000)
                THEN <<"Latitude out of valid range [-90, 90]">> ELSE <<>>)
        b == v.coordinate_bounds
    IN  IF b # <<>> /\ ~(b[1] <= lon /\ lon <= b[3] /\ b[2] <= lat /\ lat <= b[4])
            THEN range \o <<"Coordinates outside allowed bounds">>
            ELSE range

\* validate_coordinates with the upper limits exclusive
validate_coordinates_exclusive(v, lon, lat) ==
    LET range ==
            (IF ~(-18000000 <= lon /\ lon < 18000000)
                THEN <<"Longitude out of valid range [-180, 180]">> ELSE <<>>)
            \o (IF ~(-9000000 <= lat /\ lat < 9000000)
                THEN <<"Latitude out of valid range [-90, 90]">> ELSE <<>>)
        b == v.coordinate_bounds
    IN  IF b # <<>> /\ Len(range) = 0
            THEN IF ~(b[1] <= lon /\ lon < b[3] /\ b[2] <= lat /\ lat < b[4])
                    THEN <<"Coordinates outside allowed bounds">>
                    ELSE <<>>
            ELSE range

\* validate_coordinates: the list of error messages (valid iff empty)
validate_coordinates(v, lon, lat) ==
    LET range ==
            (IF ~(-18000000 <= lon /\ lon <= 18000000)
                THEN <<"Longitude out of valid range [-180, 180]">> ELSE <<>>)
            \o (IF ~(-9000000 <= lat /\ lat <= 9000000)
                THEN <<"Latitude out of valid range [-90, 90]">> ELSE <<>>)
        b == v.coordinate_bounds
    IN  IF b # <<>> /\ Len(range) = 0
            THEN IF ~(b[1] <= lon /\ lon <= b[3] /\ b[2] <= lat /\ lat <= b[4])
                    THEN <<"Coordinates outside allowed bounds">>
                    ELSE <<>>
            ELSE range

\* the loop of validate_timestamp over the formats, from format k on
RECURSIVE TryFormats(_, _)
TryFormats(ts, k) ==
    IF k > Len(Formats) THEN NoTime
    ELSE IF Strptime(ts, Formats[k]) # NoTime THEN Strptime(ts, Formats[k])
    ELSE TryFormats(ts, k + 1)

\* validate_timestamp on a datetime, a str or None
validate_timestamp(ts) ==
    IF ts \in DOMAIN DatetimeTable
        THEN [valid |-> TRUE, parsed |-> DatetimeTable[ts], error |-> ""]
    ELSE IF ts = None
        THEN [valid |-> FALSE, parsed |-> NoTime, error |-> "Invalid timestamp type"]
    ELSE IF TryFormats(ts, 1) # NoTime
        THEN [valid |-> TRUE, parsed |-> TryFormats(ts, 1), error |-> ""]
    ELSE [valid |-> FALSE, parsed |-> NoTime, error |-> "Unable to parse timestamp"]

\* validate_speed on a parsed speed (a float, in units of 1e-5 km/h; the
\* threshold is in km/h)
validate_speed(v, speed) ==
    IF speed < 0 THEN [valid |-> FALSE, error |-> "Negative speed"]
    ELSE IF speed > v.speed_threshold * 100000
        THEN [valid |-> FALSE, error |-> "Speed exceeds threshold"]
    ELSE [valid |-> TRUE, error |-> ""]

\* OverallValidity deciding in strict mode on the warnings alone
OverallValidity_warningsOnly(strict_mode, errors, warnings) ==
    IF strict_mode THEN Len(warnings) = 0 ELSE Len(errors) = 0

\* OverallValidity without the strict mode
OverallValidity_noStrict(strict_mode, errors, warnings) == Len(errors) = 0

\* "Overall validity" of validate_gps_point: is_valid from the errors, the
\* warnings and the mode
OverallValidity(strict_mode, errors, warnings) ==
    Len(errors) = 0 /\ ~(strict_mode /\ Len(warnings) > 0)

\* validate_gps_point going on to the timestamp after a missing or
\* non-numeric coordinate
validate_gps_point_noEarlyReturn(v, data) ==
    LET lon == Get(data, "longitude")
        lat == Get(data, "latitude")
        missing == lon = None \/ lat = None
        numeric == ~missing /\ IsFloat(lon) /\ IsFloat(lat)
        coord_errors ==
            IF missing THEN <<"Missing longitude or latitude">>
            ELSE IF ~numeric THEN <<"Invalid coordinate format">>
            ELSE validate_coordinates(v, Float(lon), Float(lat))
        ts == validate_timestamp(Get(data, "timestamp"))
        hasSpeed == "speed" \in DOMAIN data /\ data["speed"] # None
        sp == IF hasSpeed /\ IsFloat(data["speed"])
                THEN validate_speed(v, Float(data["speed"]))
                ELSE [valid |-> FALSE, error |-> "Invalid speed format"]
        warnings == IF hasSpeed /\ ~sp.valid THEN <<sp.error>> ELSE <<>>
        errors == coord_errors \o (IF ts.valid THEN <<>> ELSE <<ts.error>>)
        parsed ==
            (IF numeric THEN ("longitude" :> Float(lon)) @@ ("latitude" :> Float(lat))
                ELSE <<>>)
            @@ (IF ts.valid THEN "timestamp" :> ts.parsed ELSE <<>>)
            @@ (IF hasSpeed /\ sp.valid THEN "speed" :> Float(data["speed"]) ELSE <<>>)
        strictFail == v.strict_mode /\ Len(warnings) > 0
    IN  [is_valid |-> OverallValidity(v.strict_mode, errors, warnings),
         errors |-> IF strictFail THEN errors \o warnings ELSE errors,
         warnings |-> warnings,
         parsed_data |-> parsed]

\* validate_gps_point: (is_valid, errors, warnings, parsed_data)
validate_gps_point(v, data) ==
    LET lon == Get(data, "longitude")
        lat == Get(data, "latitude")
    IN  IF lon = None \/ lat = None
            THEN [is_valid |-> FALSE, errors |-> <<"Missing longitude or latitude">>,
                  warnings |-> <<>>, parsed_data |-> <<>>]
        ELSE IF ~(IsFloat(lon) /\ IsFloat(lat))
            THEN [is_valid |-> FALSE, errors |-> <<"Invalid coordinate format">>,
                  warnings |-> <<>>, parsed_data |-> <<>>]
        ELSE
            LET coord_errors == validate_coordinates(v, Float(lon), Float(lat))
                ts == validate_timestamp(Get(data, "timestamp"))
                hasSpeed == "speed" \in DOMAIN data /\ data["speed"] # None
                sp == IF hasSpeed /\ IsFloat(data["speed"])
                        THEN validate_speed(v, Float(data["speed"]))
                        ELSE [valid |-> FALSE, error |-> "Invalid speed format"]
                warnings == IF hasSpeed /\ ~sp.valid THEN <<sp.error>> ELSE <<>>
                errors == coord_errors \o (IF ts.valid THEN <<>> ELSE <<ts.error>>)
                parsed ==
                    ("longitude" :> Float(lon)) @@ ("latitude" :> Float(lat))
                    @@ (IF ts.valid THEN "timestamp" :> ts.parsed ELSE <<>>)
                    @@ (IF hasSpeed /\ sp.valid THEN "speed" :> Float(data["speed"]) ELSE <<>>)
                strictFail == v.strict_mode /\ Len(warnings) > 0
            IN  [is_valid |-> OverallValidity(v.strict_mode, errors, warnings),
                 errors |-> IF strictFail THEN errors \o warnings ELSE errors,
                 warnings |-> warnings,
                 parsed_data |-> parsed]

\* ------------------------------------------------------------------------
\* Source files
\* ------------------------------------------------------------------------
\* A line is the sequence of its delimiter-separated, stripped fields; the
\* blank line has none.
BlankLine == <<>>
ShortLine == <<"1", "2024-01-15 08:00:00">>
Lines ==
    { BlankLine,
      ShortLine,
      <<"1", "2024-01-15 08:00:00", "116.40734", "39.90469">>,
      <<"2", "2024-01-15 08:00:00", "116.40734", "39.90469">>,
      <<"1", "2024-01-15 08:05:00", "116.40734", "39.90469">>,
      <<"2", "invalid-date", "116.40734", "39.90469">>,
      <<"3", "2024-01-15 08:00:00", "999.0", "39.90469">>,
      <<"3", "2024-01-15 08:05:00", "116.40734", "39.90469", "250.0">> }

\* the header line of the CSV files of the model and the mapping of its
\* columns (standard field -> source field)
CsvHeader == <<"vehicle_id", "datetime", "lon", "lat", "speed_kmh">>
FieldMapping ==
    [entity_id |-> "vehicle_id", timestamp |-> "datetime",
     longitude |-> "lon", latitude |-> "lat", speed |-> "speed_kmh"]

\* line.split(delimiter) followed by strip() of each part
Split(line) == IF line = BlankLine THEN <<"">> ELSE line

\* csv.DictReader: a row as a dict keyed by the header's field names, the
\* fields missing from a short row being None (restval)
DictRow(header, vals) ==
    [k \in {header[i] : i \in 1..Len(header)} |->
        LET i == CHOOSE j \in 1..Len(header) : header[j] = k
        IN  IF i <= Len(vals) THEN vals[i] ELSE None]

Range(f) == {f[k] : k \in DOMAIN f}

\* second loop of _apply_field_mapping over the raw keys, in order, from key k
RECURSIVE ApplyExtras(_, _, _, _, _)
ApplyExtras(raw, keys, field_mapping, mapped, k) ==
    IF k > Len(keys) THEN mapped
    ELSE LET key == keys[k]
         IN  IF key \notin Range(field_mapping) /\ key \notin DOMAIN mapped
                THEN LET extra == IF "extra_attributes" \in DOMAIN mapped
                                    THEN mapped["extra_attributes"] ELSE <<>>
                         added == (key :> raw[key]) @@ extra
                     IN  ApplyExtras(raw, keys, field_mapping,
                            ("extra_attributes" :> added) @@ mapped, k + 1)
                ELSE ApplyExtras(raw, keys, field_mapping, mapped, k + 1)

\* _apply_field_mapping(raw_data, field_mapping); keys is raw_data's key order
_apply_field_mapping(raw, keys, field_mapping) ==
    LET mapped == [sf \in {f \in DOMAIN field_mapping : field_mapping[f] \in DOMAIN raw}
                        |-> raw[field_mapping[sf]]]
    IN  ApplyExtras(raw, keys, field_mapping, mapped, 1)

\* ------------------------------------------------------------------------
\* Store: the GPSPoint table and its unique_together constraint
\* ------------------------------------------------------------------------
\* GPSPoint.speed when null, and the default (an empty dict) of
\* GPSPoint.validation_flags
NoSpeed == -1
NoFlags == <<>>

\* GPSPoint(...) as built by the importers, not yet saved; job and rec name
\* the import and the record the point comes from
GPSPoint(ds, entity_id, parsed, jobId, rec) ==
    [dataset |-> ds, entity_id |-> entity_id, timestamp |-> parsed["timestamp"],
     longitude |-> parsed["longitude"], latitude |-> parsed["latitude"],
     speed |-> IF "speed" \in DOMAIN parsed THEN parsed["speed"] ELSE NoSpeed,
     validation_flags |-> NoFlags,
     job |-> jobId, rec |-> rec]

\* the fields of unique_together
Key(p) == <<p.dataset, p.entity_id, p.timestamp>>

\* the largest primary key of the table
MaxPk(table) ==
    IF table = {} THEN 0
    ELSE CHOOSE m \in {r.pk : r \in table} : \A r \in table : r.pk <= m

\* the row inserted for a point: the point with its new primary key
Row(p, pk) ==
    [pk |-> pk, dataset |-> p.dataset, entity_id |-> p.entity_id,
     timestamp |-> p.timestamp, longitude |-> p.longitude, latitude |-> p.latitude,
     speed |-> p.speed, validation_flags |-> p.validation_flags,
     job |-> p.job, rec |-> p.rec]

\* UniqueViolation without any constraint on the table
UniqueViolation_none(table, batch) == FALSE

\* UniqueViolation checking the keys of the batch against each other only
UniqueViolation_batchOnly(table, batch) ==
    \E i, j \in 1..Len(batch) : i < j /\ Key(batch[i]) = Key(batch[j])

\* unique_together = [['dataset', 'entity_id', 'timestamp']]: does inserting
\* the batch into the table violate the constraint
UniqueViolation(table, batch) ==
    \/ \E i \in 1..Len(batch) : \E r \in table : Key(r) = Key(batch[i])
    \/ \E i, j \in 1..Len(batch) : i < j /\ Key(batch[i]) = Key(batch[j])

\* GPSPoint.objects.bulk_create(batch): one atomic insert, which raises
\* IntegrityError and inserts nothing when the constraint is violated
bulk_create(table, batch) ==
    IF UniqueViolation(table, batch)
        THEN [raised |-> TRUE, table |-> table]
        ELSE [raised |-> FALSE,
              table |-> table \cup {Row(batch[i], MaxPk(table) + i) : i \in 1..Len(batch)}]

\* ------------------------------------------------------------------------
\* State
\* ------------------------------------------------------------------------
VARIABLES
    pc,             \* position of the import call
    now,            \* timezone.now()
    store,          \* the GPSPoint table
    jobs,           \* the ImportJob table: the persisted row of each job id
    errors,         \* the ValidationError table, in insertion order
    dataset,        \* MobilityDataImporter.dataset
    validator,      \* MobilityDataImporter.validator
    mode,           \* which import is running: "text" or "csv"
    config,         \* the config argument of the import
    file,           \* the lines read from the source so far (after the CSV header)
    job,            \* the ImportJob instance held by the import (in memory)
    points_buffer,  \* the local points_buffer
    record_count,   \* the local record_count
    lastFlush,      \* the bulk_create calls of the import: number, last batch, outcome
    call,           \* the last call of a function of the validator or the mapper
    legacy          \* the legacy TDriveImporter: its calls and import_directory's locals

vars ==
    << pc, now, store, jobs, errors, dataset, validator, mode, config, file, job,
       points_buffer, record_count, lastFlush, call, legacy >>

\* a null IntegerField / DateTimeField is NoTime; the only job of a run has id 1
JobId == 1
NoJob == [status |-> "", total_records |-> NoTime, processed_records |-> 0,
          successful_records |-> 0, failed_records |-> 0, started_at |-> NoTime,
          completed_at |-> NoTime, duration_seconds |-> NoTime, error_message |-> ""]
NoFlush == [count |-> 0, batch |-> <<>>, raised |-> FALSE]
\* no function called yet; the legacy importer not used
NoCall == [fn |-> ""]
NoLegacy == [pc |-> "unused"]

\* rows stored by earlier imports (job 0), one per key
EarlierRows ==
    { [pk |-> k[3], dataset |-> k[1], entity_id |-> k[2], timestamp |-> 20640,
       longitude |-> 11640734, latitude |-> 3990469, speed |-> NoSpeed,
       validation_flags |-> NoFlags, job |-> 0, rec |-> 0] :
        k \in {<<"d1", "1", 1>>, <<"d1", "2", 2>>, <<"d2", "1", 3>>} }

\* the config arguments of the model: no 'validation' entry, the default delimiter
Configs == {[skip_header |-> b, field_mapping |-> FieldMapping] : b \in BOOLEAN}

\* ------------------------------------------------------------------------
\* ImportJob transitions
\* ------------------------------------------------------------------------
\* ImportJob.objects.create(..., status=STATUS_PENDING) and the field defaults
NewJob == [NoJob EXCEPT !.status = STATUS_PENDING]

\* job.status = STATUS_PROCESSING; job.started_at = timezone.now()
StartJob(j, t) == [j EXCEPT !.status = STATUS_PROCESSING, !.started_at = t]

\* CompleteJob declaring the job failed when it accepted no record
CompleteJob_failOnRejects(j, count) ==
    [j EXCEPT !.status = IF j.successful_records = 0 /\ j.failed_records > 0
                            THEN STATUS_FAILED ELSE STATUS_COMPLETED,
              !.total_records = count]

\* job.status = STATUS_COMPLETED; job.total_records = record_count
CompleteJob(j, count) == [j EXCEPT !.status = STATUS_COMPLETED, !.total_records = count]

\* FailJob recording the message but leaving the status as it is
FailJob_keepStatus(j, e) == [j EXCEPT !.error_message = e]

\* except Exception as e: job.status = STATUS_FAILED; job.error_message = str(e)
FailJob(j, e) == [j EXCEPT !.status = STATUS_FAILED, !.error_message = e]

\* Finally computing no duration
Finally_noDuration(j, t) == [j EXCEPT !.completed_at = t]

\* finally: job.completed_at, job.duration_seconds (job.save() is the caller's)
Finally(j, t) ==
    [j EXCEPT !.completed_at = t,
              !.duration_seconds = IF j.started_at # NoTime THEN t - j.started_at ELSE @]

\* log_validation_error returning before the row is created
log_validation_error_noRow(errs, record_number, error_type, error_message, raw_data) ==
    errs

\* log_validation_error when ValidationError.objects.create succeeds
log_validation_error(errs, record_number, error_type, error_message, raw_data) ==
    Append(errs, [import_job |-> JobId, record_number |-> record_number,
                  raw_data |-> raw_data, error_type |-> error_type,
                  error_message |-> error_message])

\* the configuration of the validator at the start of an import
ConfigureForImport(cfg) ==
    IF "validation" \in DOMAIN cfg THEN DataValidator(cfg.validation) ELSE DataValidator(<<>>)

\* ------------------------------------------------------------------------
\* One record of the source
\* ------------------------------------------------------------------------
\* The body of the per-record try of import_text_file with its handler, for
\* the non-blank line of number i. r1: the first ValidationError write of the
\* record raises; r2: the write made by the handler raises too.
\* skip: the iteration ended by `continue`; exc: the exception that escapes.
TextRecord(j, buf, errs, v, ds, line, i, r1, r2) ==
    LET parts == Split(line)
        short == Len(parts) < 4
        data == [entity_id |-> parts[1], timestamp |-> parts[2],
                 longitude |-> parts[3], latitude |-> parts[4]]
        res == validate_gps_point(v, data)
    IN  IF ~short /\ res.is_valid
            THEN [job |-> [j EXCEPT !.successful_records = @ + 1],
                  buffer |-> Append(buf, GPSPoint(ds, data.entity_id, res.parsed_data, JobId, i)),
                  errors |-> errs, skip |-> FALSE, exc |-> ""]
        ELSE IF ~r1
            THEN [job |-> [j EXCEPT !.failed_records = @ + 1],
                  buffer |-> buf,
                  errors |-> IF short
                        THEN log_validation_error(errs, i, "parsing_error",
                                <<"Expected at least 4 fields">>, line)
                        ELSE log_validation_error(errs, i, "validation_failed",
                                res.errors, line),
                  skip |-> short, exc |-> ""]
        ELSE IF ~r2
            THEN [job |-> [j EXCEPT !.failed_records = @ + 1],
                  buffer |-> buf,
                  errors |-> log_validation_error(errs, i, "parsing_error",
                                <<"DatabaseError">>, line),
                  skip |-> FALSE, exc |-> ""]
        ELSE [job |-> j, buffer |-> buf, errors |-> errs, skip |-> FALSE,
              exc |-> "DatabaseError"]

\* The body of the loop of import_from_csv for the row of number i, up to
\* the count of the record as successful or failed; it has no handler.
CsvRecord(j, buf, errs, v, ds, line, i, r1, field_mapping) ==
    LET row == DictRow(CsvHeader, line)
        mapped_data == IF field_mapping # <<>>
                        THEN _apply_field_mapping(row, CsvHeader, field_mapping)
                        ELSE row
        res == validate_gps_point(v, mapped_data)
        entity_id == IF "entity_id" \in DOMAIN mapped_data
                        THEN mapped_data["entity_id"] ELSE "unknown"
    IN  IF res.is_valid
            THEN [job |-> [j EXCEPT !.successful_records = @ + 1],
                  buffer |-> Append(buf, GPSPoint(ds, entity_id, res.parsed_data, JobId, i)),
                  errors |-> errs, skip |-> FALSE, exc |-> ""]
        ELSE IF ~r1
            THEN [job |-> [j EXCEPT !.failed_records = @ + 1],
                  buffer |-> buf,
                  errors |-> log_validation_error(errs, i, "validation_failed",
                                res.errors, line),
                  skip |-> FALSE, exc |-> ""]
        ELSE [job |-> j, buffer |-> buf, errors |-> errs, skip |-> FALSE,
              exc |-> "DatabaseError"]

\* the except and finally clauses of the import, entered with exception e
Abort(j, e) ==
    /\ job' = Finally(FailJob(j, e), now)
    /\ jobs' = (JobId :> Finally(FailJob(j, e), now))
    /\ pc' = "done"

\* SaveProgress leaving the job's row as it is
SaveProgress_skipped(table, j) == table

\* `job.save()  # Update progress` after the insert of a full buffer: the
\* table of jobs with the row of the job rewritten
SaveProgress(table, j) == (JobId :> j)

\* CountProcessed leaving the count as it is
CountProcessed_none(j) == j

\* `job.processed_records += 1` at the end of the iteration
CountProcessed(j) == [j EXCEPT !.processed_records = @ + 1]

\* BufferFull flushing only a buffer that has grown past batch_size
BufferFull_late(buf) == Len(buf) > BatchSize

\* `if len(points_buffer) >= self.batch_size:` tested after each append
BufferFull(buf) == Len(buf) >= BatchSize

\* The rest of the iteration for record i, rec being the outcome of the
\* record: the escape of an exception to the outer handler, `continue`, or
\* the count of the record as processed and the flush of a full buffer
\* followed by job.save().
EndIteration(rec, i) ==
    /\ record_count' = i
    /\ errors' = rec.errors
    /\ IF rec.exc # ""
          THEN /\ Abort(rec.job, rec.exc)
               /\ points_buffer' = rec.buffer
               /\ UNCHANGED <<store, lastFlush>>
       ELSE IF rec.skip
          THEN /\ job' = rec.job
               /\ points_buffer' = rec.buffer
               /\ UNCHANGED <<pc, store, jobs, lastFlush>>
       ELSE LET j == CountProcessed(rec.job)
                r == bulk_create(store, rec.buffer)
            IN  IF BufferFull(rec.buffer)
                  THEN /\ lastFlush' = [count |-> lastFlush.count + 1,
                                        batch |-> rec.buffer, raised |-> r.raised]
                       /\ store' = r.table
                       /\ IF r.raised
                             THEN /\ Abort(j, "IntegrityError")
                                  /\ points_buffer' = rec.buffer
                             ELSE /\ points_buffer' = <<>>
                                  /\ job' = j
                                  /\ jobs' = SaveProgress(jobs, j)
                                  /\ UNCHANGED pc
                  ELSE /\ job' = j
                       /\ points_buffer' = rec.buffer
                       /\ UNCHANGED <<pc, store, jobs, lastFlush>>

\* FinalFlush with the remaining records never inserted
FinalFlush_none(buf) == <<>>

\* "Insert remaining": the batch flushed at the end of the stream
FinalFlush(buf) == buf

\* ------------------------------------------------------------------------
\* The import call
\* ------------------------------------------------------------------------
Init ==
    /\ call = NoCall
    /\ legacy = NoLegacy
    /\ pc = "idle"
    /\ now = 0
    /\ store \in SUBSET EarlierRows
    /\ jobs = <<>>
    /\ errors = <<>>
    /\ dataset = "d1"
    /\ validator \in {NoValidator, DataValidator([coordinate_bounds |-> BeijingBounds])}
    /\ mode = ""
    /\ config = <<>>
    /\ file = <<>>
    /\ job = NoJob
    /\ points_buffer = <<>>
    /\ record_count = 0
    /\ lastFlush = NoFlush

\* import_text_file / import_from_csv up to create_import_job: the validator
\* is configured and the job row is created
CreateImportJob ==
    /\ UNCHANGED <<call, legacy>>
    /\ pc = "idle"
    /\ \E m \in {"text", "csv"}, cfg \in Configs :
        /\ mode' = m
        /\ config' = cfg
        /\ validator' = ConfigureForImport(cfg)
    /\ job' = NewJob
    /\ jobs' = (JobId :> NewJob)
    /\ pc' = "created"
    /\ now' = now + 1
    /\ UNCHANGED <<store, errors, dataset, file, points_buffer, record_count, lastFlush>>

\* job.status = STATUS_PROCESSING; job.started_at = timezone.now(); job.save()
StartProcessing ==
    /\ UNCHANGED <<call, legacy>>
    /\ pc = "created"
    /\ job' = StartJob(job, now)
    /\ jobs' = (JobId :> StartJob(job, now))
    /\ pc' = "open"
    /\ now' = now + 1
    /\ UNCHANGED <<store, errors, dataset, validator, mode, config, file,
                   points_buffer, record_count, lastFlush>>

\* open(file_path) succeeds; with skip_header the CSV import goes on to
\* next(reader, None)
OpenFile ==
    /\ UNCHANGED <<call, legacy>>
    /\ pc = "open"
    /\ pc' = IF mode = "csv" /\ config.skip_header THEN "header" ELSE "loop"
    /\ now' = now + 1
    /\ UNCHANGED <<store, jobs, errors, dataset, validator, mode, config, file, job,
                   points_buffer, record_count, lastFlush>>

\* open(file_path) raises: the file is missing or unreadable
OpenFails ==
    /\ UNCHANGED <<call, legacy>>
    /\ pc = "open"
    /\ Abort(job, "FileNotFoundError")
    /\ now' = now + 1
    /\ UNCHANGED <<store, errors, dataset, validator, mode, config, file,
                   points_buffer, record_count, lastFlush>>

\* IsBlank taking no line for blank
IsBlank_never(line) == FALSE

\* `if not line` on the stripped line
IsBlank(line) == line = BlankLine

\* one iteration of `for i, line in enumerate(f, start=1)` of import_text_file
ReadTextLine ==
    /\ UNCHANGED <<call, legacy>>
    /\ pc = "loop"
    /\ mode = "text"
    /\ Len(file) < MaxLines
    /\ \E line \in Lines, r1, r2 \in BOOLEAN :
        /\ file' = Append(file, line)
        /\ IF IsBlank(line)
              THEN /\ record_count' = record_count + 1
                   /\ UNCHANGED <<pc, store, jobs, errors, job, points_buffer, lastFlush>>
              ELSE EndIteration(
                      TextRecord(job, points_buffer, errors, validator, dataset, line,
                                 record_count + 1, r1, r2),
                      record_count + 1)
    /\ now' = now + 1
    /\ UNCHANGED <<dataset, validator, mode, config>>

\* `next(reader, None)` of import_from_csv: the DictReader, which took the
\* header line as its field names, returns the first non-empty row after it
SkipHeaderRow ==
    /\ UNCHANGED <<call, legacy>>
    /\ pc = "header"
    /\ Len(file) < MaxLines
    /\ \E line \in Lines :
        /\ file' = Append(file, line)
        /\ pc' = IF line = BlankLine THEN "header" ELSE "loop"
    /\ now' = now + 1
    /\ UNCHANGED <<store, jobs, errors, dataset, validator, mode, config, job,
                   points_buffer, record_count, lastFlush>>

\* one line of the file read by `for i, row in enumerate(reader, start=1)` of
\* import_from_csv; the DictReader does not return empty rows
ReadCsvRow ==
    /\ UNCHANGED <<call, legacy>>
    /\ pc = "loop"
    /\ mode = "csv"
    /\ Len(file) < MaxLines
    /\ \E line \in Lines, r1 \in BOOLEAN :
        /\ file' = Append(file, line)
        /\ IF line = BlankLine
              THEN UNCHANGED <<pc, store, jobs, errors, job, points_buffer,
                               record_count, lastFlush>>
              ELSE EndIteration(
                      CsvRecord(job, points_buffer, errors, validator, dataset, line,
                                record_count + 1, r1, config.field_mapping),
                      record_count + 1)
    /\ now' = now + 1
    /\ UNCHANGED <<dataset, validator, mode, config>>

\* the source is exhausted: the remaining buffer is inserted, the job is
\* completed (or failed when the insert raises), and job.save() is called
EndOfStream ==
    /\ UNCHANGED <<call, legacy>>
    /\ pc \in {"loop", "header"}
    /\ LET batch == FinalFlush(points_buffer)
           r == bulk_create(store, batch)
       IN  IF batch # <<>>
             THEN /\ lastFlush' = [count |-> lastFlush.count + 1,
                                   batch |-> batch, raised |-> r.raised]
                  /\ store' = r.table
                  /\ IF r.raised
                        THEN Abort(job, "IntegrityError")
                        ELSE /\ job' = Finally(CompleteJob(job, record_count), now)
                             /\ jobs' = (JobId :> Finally(CompleteJob(job, record_count), now))
                             /\ pc' = "done"
             ELSE /\ job' = Finally(CompleteJob(job, record_count), now)
                  /\ jobs' = (JobId :> Finally(CompleteJob(job, record_count), now))
                  /\ pc' = "done"
                  /\ UNCHANGED <<store, lastFlush>>
    /\ now' = now + 1
    /\ UNCHANGED <<errors, dataset, validator, mode, config, file, points_buffer,
                   record_count>>

Next ==
    \/ CreateImportJob
    \/ StartProcessing
    \/ OpenFile
    \/ OpenFails
    \/ SkipHeaderRow
    \/ ReadTextLine
    \/ ReadCsvRow
    \/ EndOfStream

Spec == Init /\ [][Next]_vars

\* ------------------------------------------------------------------------
\* A batch flushed twice (crash-retry of the flush)
\* ------------------------------------------------------------------------
\* the batches of at most MaxBatch points of dataset d1
BatchPoints ==
    { [dataset |-> "d1", entity_id |-> e, timestamp |-> t, longitude |-> 11640734,
       latitude |-> 3990469, speed |-> NoSpeed, validation_flags |-> NoFlags,
       job |-> JobId] :
        e \in {"1", "2"}, t \in {20640, 20645} }
Batches ==
    UNION { { [i \in 1..n |-> b[i] @@ ("rec" :> i)] : b \in [1..n -> BatchPoints] } :
            n \in 1..MaxBatch }

FlushInit ==
    /\ call = NoCall
    /\ legacy = NoLegacy
    /\ pc = "flush0"
    /\ now = 0
    /\ store \in SUBSET EarlierRows
    /\ jobs = <<>>
    /\ errors = <<>>
    /\ dataset = "d1"
    /\ validator = NoValidator
    /\ mode = ""
    /\ config = <<>>
    /\ file = <<>>
    /\ job = NoJob
    /\ points_buffer \in Batches
    /\ record_count = 0
    /\ lastFlush = NoFlush

\* GPSPoint.objects.bulk_create(points_buffer), its IntegrityError caught
FlushBatch(from, to) ==
    /\ UNCHANGED <<call, legacy>>
    /\ pc = from
    /\ pc' = to
    /\ store' = bulk_create(store, points_buffer).table
    /\ lastFlush' = [count |-> lastFlush.count + 1, batch |-> points_buffer,
                     raised |-> bulk_create(store, points_buffer).raised]
    /\ UNCHANGED <<now, jobs, errors, dataset, validator, mode, config, file, job,
                   points_buffer, record_count>>

FlushOnce == FlushBatch("flush0", "flush1")

FlushAgain == FlushBatch("flush1", "flush2")

FlushNext ==
    \/ FlushOnce
    \/ FlushAgain

FlushSpec == FlushInit /\ [][FlushNext]_vars

\* ------------------------------------------------------------------------
\* Calls of the validator's functions on their own
\* ------------------------------------------------------------------------
\* the importer's variables while no import runs
NoImport ==
    /\ pc = "none"
    /\ now = 0
    /\ store = {}
    /\ jobs = <<>>
    /\ errors = <<>>
    /\ dataset = "d1"
    /\ validator = NoValidator
    /\ mode = ""
    /\ config = <<>>
    /\ file = <<>>
    /\ job = NoJob
    /\ points_buffer = <<>>
    /\ record_count = 0
    /\ lastFlush = NoFlush

\* a key absent from a dict
Absent == "<absent>"

\* the records handed to validate_gps_point: longitude, latitude and
\* timestamp as strings or None, speed absent, None or a string
GpsRecords ==
    { [longitude |-> lo, latitude |-> la, timestamp |-> ts]
        @@ (IF sp = Absent THEN <<>> ELSE "speed" :> sp) :
        lo \in {None, "abc", "116.40734", "999.0", "120.0", "180.0"},
        la \in {None, "39.90469", "35.0", "91.0", "90.0"},
        ts \in {None, "2024-01-15 08:00:00", "2024-01-15T08:00:00", "invalid-date"},
        sp \in {Absent, None, "25.5", "-10.0", "180.0", "250.0", "abc"} }

ParisBounds == <<225000, 4882000, 242000, 4890000>>

\* validator configurations, strict_mode left out
ValidatorConfigs ==
    { (IF b = <<>> THEN <<>> ELSE "coordinate_bounds" :> b)
        @@ (IF t = 0 THEN <<>> ELSE "speed_threshold" :> t) :
        b \in {<<>>, BeijingBounds}, t \in {0, 150} }

\* coordinates at and around the limits of the range and of the boxes
Longitudes ==
    {-18000001, -18000000, 224999, 225000, 230000, 242000, 250000, 11640734, 12000000,
     18000000, 18000001}
Latitudes ==
    {-9000001, -9000000, 3500000, 3990469, 4881999, 4882000, 4885000, 4890000, 4890001,
     9000000, 9000001}

\* the arguments of the calls
GpsPointArgs ==
    {[fn |-> "", args |-> "validate_gps_point", data |-> data, config |-> c] :
        data \in GpsRecords, c \in ValidatorConfigs}
TimestampArgs ==
    {[fn |-> "", args |-> "validate_timestamp", timestamp |-> ts] :
        ts \in {None, "invalid-date", "2024-01-15 08:00:00", "2024-01-15 08:05:00",
                "2024-01-15T08:00:00", "2024-01-15 08:00:00.500000", "01/02/2024 08:00:00",
                "13/01/2024 08:00:00", "01/13/2024 08:00:00"} \cup DOMAIN DatetimeTable}
CoordinatesArgs ==
    {[fn |-> "", args |-> "validate_coordinates", lon |-> lon, lat |-> lat, bounds |-> b] :
        lon \in Longitudes, lat \in Latitudes, b \in {<<>>, BeijingBounds, ParisBounds}}

ValidatorInit ==
    /\ NoImport
    /\ call \in GpsPointArgs \cup CoordinatesArgs \cup TimestampArgs
    /\ legacy = NoLegacy

\* validate_gps_point(data) by two validators whose configurations differ in
\* strict_mode only
ValidateGpsPoint ==
    /\ call.fn = "" /\ call.args = "validate_gps_point"
    /\ call' = [fn |-> "validate_gps_point", data |-> call.data, config |-> call.config,
                result |-> [strict \in BOOLEAN |->
                    validate_gps_point(
                        DataValidator(("strict_mode" :> strict) @@ call.config), call.data)]]
    /\ UNCHANGED <<pc, now, store, jobs, errors, dataset, validator, mode, config, file,
                   job, points_buffer, record_count, lastFlush, legacy>>

\* validate_coordinates(lon, lat) with or without a bounding box
ValidateCoordinates ==
    /\ call.fn = "" /\ call.args = "validate_coordinates"
    /\ call' = [fn |-> "validate_coordinates", lon |-> call.lon, lat |-> call.lat,
                bounds |-> call.bounds,
                errors |-> validate_coordinates(
                    DataValidator([coordinate_bounds |-> call.bounds]), call.lon, call.lat)]
    /\ UNCHANGED <<pc, now, store, jobs, errors, dataset, validator, mode, config, file,
                   job, points_buffer, record_count, lastFlush, legacy>>

\* validate_timestamp(timestamp)
ValidateTimestamp ==
    /\ call.fn = "" /\ call.args = "validate_timestamp"
    /\ call' = [fn |-> "validate_timestamp", timestamp |-> call.timestamp,
                result |-> validate_timestamp(call.timestamp)]
    /\ UNCHANGED <<pc, now, store, jobs, errors, dataset, validator, mode, config, file,
                   job, points_buffer, record_count, lastFlush, legacy>>

ValidatorNext ==
    \/ ValidateGpsPoint
    \/ ValidateCoordinates
    \/ ValidateTimestamp

ValidatorSpec == ValidatorInit /\ [][ValidatorNext]_vars

\* ------------------------------------------------------------------------
\* The legacy TDriveImporter (services/tdrive_importer.py)
\* ------------------------------------------------------------------------
\* the attributes of the class TDriveImportLog
TDriveImportLogAttributes ==
    {"import_batch_id", "file_name", "file_path", "total_lines", "successful_imports",
     "failed_imports", "start_time", "end_time", "duration_seconds", "status",
     "error_message", "created_at", "objects"}

\* the names a directory can hold, as sorted() orders them
SortedNames == <<"1.txt", "2.txt", "3.txt", "notes.csv">>
\* a path that no directory holds
MissingPath == "9.txt"
\* Path.glob("*.txt")
IsTxt(name) == name \in {"1.txt", "2.txt", "3.txt", MissingPath}

\* a directory: its entries with what reading each of them does
\* ("good": read to its end, "unreadable": reading raises)
Directories ==
    UNION { [names -> {"good", "unreadable"}] : names \in SUBSET Range(SortedNames) }

\* max_files = None, the default of import_directory
NoMaxFiles == -1
\* the max_files arguments of import_directory
MaxFilesArgs == {NoMaxFiles, 0, 1, 2}
\* `if max_files:`, the truth value of an Optional[int]
IsTrue(max_files) == max_files # NoMaxFiles /\ max_files # 0

\* sorted(list(Path(directory_path).glob("*.txt")))
SortedTxtFiles(dir) ==
    LET InDir(name) == name \in DOMAIN dir /\ IsTxt(name)
    IN  SelectSeq(SortedNames, InDir)

\* txt_files[:max_files]
Slice(files, n) == IF n < Len(files) THEN SubSeq(files, 1, n) ELSE files

\* TDriveImporter.import_file(path) in the directory dir: what the call does
\* (raised: the exception that reaches the caller, "" if none; success,
\* successful, failed: the entries of the dict returned, a good file standing
\* for a file of one valid line; stored: the file's points are in the store
\* after the call; log: the status of the file's import log, "" if there is
\* no log)
import_file(dir, path) ==
    IF path \notin DOMAIN dir
        THEN [raised |-> "FileNotFoundError", success |-> FALSE, stored |-> FALSE,
              successful |-> 0, failed |-> 0, log |-> ""]
    ELSE IF "STATUS_PROCESSING" \notin TDriveImportLogAttributes
        THEN [raised |-> "AttributeError", success |-> FALSE, stored |-> FALSE,
              successful |-> 0, failed |-> 0, log |-> ""]
    ELSE IF dir[path] = "good" /\ "STATUS_COMPLETED" \in TDriveImportLogAttributes
        THEN [raised |-> "", success |-> TRUE, stored |-> TRUE,
              successful |-> 1, failed |-> 0, log |-> "completed"]
    ELSE IF "STATUS_FAILED" \notin TDriveImportLogAttributes
        THEN [raised |-> "AttributeError", success |-> FALSE, stored |-> FALSE,
              successful |-> 0, failed |-> 0, log |-> "processing"]
    ELSE [raised |-> "", success |-> FALSE, stored |-> FALSE,
          successful |-> 0, failed |-> 0, log |-> "failed"]

LegacyInit ==
    /\ NoImport
    /\ call = NoCall
    /\ legacy \in {[pc |-> "idle", dir |-> d, max_files |-> m, path |-> "", result |-> <<>>,
                    txt_files |-> <<>>, idx |-> 0, stored |-> {},
                    stats |-> <<>>] : d \in Directories, m \in MaxFilesArgs}

\* a call of import_file on a path of the directory or on a missing path
ImportFile ==
    /\ legacy.pc = "idle"
    /\ \E path \in {n \in DOMAIN legacy.dir : IsTxt(n)} \cup {MissingPath} :
        LET r == import_file(legacy.dir, path)
        IN  legacy' = [legacy EXCEPT !.pc = "file_done", !.path = path, !.result = r,
                            !.stored = IF r.stored THEN {path} ELSE {}]
    /\ UNCHANGED <<pc, now, store, jobs, errors, dataset, validator, mode, config, file,
                   job, points_buffer, record_count, lastFlush, call>>

\* import_directory up to its loop: the files and the statistics
ImportDirectory ==
    /\ legacy.pc = "idle"
    /\ LET all == SortedTxtFiles(legacy.dir)
           txt_files == IF IsTrue(legacy.max_files) THEN Slice(all, legacy.max_files) ELSE all
       IN  legacy' = [legacy EXCEPT !.pc = "dir_loop", !.txt_files = txt_files, !.idx = 1,
                            !.stats = [total_files |-> Len(txt_files),
                                       successful_files |-> 0, failed_files |-> 0,
                                       total_points |-> 0, failed_points |-> 0]]
    /\ UNCHANGED <<pc, now, store, jobs, errors, dataset, validator, mode, config, file,
                   job, points_buffer, record_count, lastFlush, call>>

\* CountFile leaving a file whose import raised out of the counts
CountFile_raisedUncounted(stats, r) ==
    IF r.raised # ""
        THEN stats
    ELSE IF r.success
        THEN [stats EXCEPT !.successful_files = @ + 1,
                           !.total_points = @ + r.successful,
                           !.failed_points = @ + r.failed]
    ELSE [stats EXCEPT !.failed_files = @ + 1]

\* the body of the try of the loop of import_directory and its handler: the
\* statistics after the import of one file, r being what import_file did
CountFile(stats, r) ==
    IF r.raised = "" /\ r.success
        THEN [stats EXCEPT !.successful_files = @ + 1,
                           !.total_points = @ + r.successful,
                           !.failed_points = @ + r.failed]
        ELSE [stats EXCEPT !.failed_files = @ + 1]

\* one iteration of the loop of import_directory
ImportDirectoryFile ==
    /\ legacy.pc = "dir_loop"
    /\ legacy.idx <= Len(legacy.txt_files)
    /\ LET path == legacy.txt_files[legacy.idx]
           r == import_file(legacy.dir, path)
       IN  legacy' = [legacy EXCEPT
                !.idx = @ + 1,
                !.stored = IF r.stored THEN @ \cup {path} ELSE @,
                !.stats = CountFile(@, r)]
    /\ UNCHANGED <<pc, now, store, jobs, errors, dataset, validator, mode, config, file,
                   job, points_buffer, record_count, lastFlush, call>>

\* `'success': stats['failed_files'] == 0`
ReturnedSuccess(stats) == stats.failed_files = 0

\* the return of import_directory
ImportDirectoryReturn ==
    /\ legacy.pc = "dir_loop"
    /\ legacy.idx > Len(legacy.txt_files)
    /\ legacy' = [legacy EXCEPT !.pc = "dir_done",
                    !.result = [success |-> ReturnedSuccess(legacy.stats)]]
    /\ UNCHANGED <<pc, now, store, jobs, errors, dataset, validator, mode, config, file,
                   job, points_buffer, record_count, lastFlush, call>>

LegacyNext ==
    \/ ImportFile
    \/ ImportDirectory
    \/ ImportDirectoryFile
    \/ ImportDirectoryReturn

LegacySpec == LegacyInit /\ [][LegacyNext]_vars

\* ------------------------------------------------------------------------
\* Calls of _apply_field_mapping on its own
\* ------------------------------------------------------------------------
\* the columns a raw record can have, in the order of the record's keys, and
\* the value of each
RawKeys == <<"vehicle_id", "datetime", "timestamp", "lon", "lat", "color">>
RawValue ==
    [k \in Range(RawKeys) |->
        CASE k = "vehicle_id" -> "1"
          [] k = "datetime" -> "2024-01-15 08:00:00"
          [] k = "timestamp" -> "2024-01-15 08:05:00"
          [] k = "lon" -> "116.40734"
          [] k = "lat" -> "39.90469"
          [] k = "color" -> "red"]

\* the raw records: any of the columns
RawRecords == {[k \in ks |-> RawValue[k]] : ks \in SUBSET Range(RawKeys)}

\* the keys of a raw record, in order
KeysOf(raw) ==
    LET InRaw(k) == k \in DOMAIN raw
    IN  SelectSeq(RawKeys, InRaw)

\* the mappings (standard field -> source field): of every column, of one
\* column, and of columns that already bear their standard name
Mappings ==
    { FieldMapping,
      [timestamp |-> "datetime"],
      [timestamp |-> "timestamp", longitude |-> "lon", latitude |-> "lat"],
      [entity_id |-> "vehicle_id", longitude |-> "lon"] }

MappingInit ==
    /\ NoImport
    /\ call \in {[fn |-> "", args |-> "_apply_field_mapping", raw_data |-> raw,
                  field_mapping |-> fm] : raw \in RawRecords, fm \in Mappings}
    /\ legacy = NoLegacy

\* _apply_field_mapping(raw_data, field_mapping)
ApplyFieldMapping ==
    /\ call.fn = "" /\ call.args = "_apply_field_mapping"
    /\ call' = [fn |-> "_apply_field_mapping", raw_data |-> call.raw_data,
                field_mapping |-> call.field_mapping,
                mapped_data |-> _apply_field_mapping(call.raw_data, KeysOf(call.raw_data),
                                                     call.field_mapping)]
    /\ UNCHANGED <<pc, now, store, jobs, errors, dataset, validator, mode, config, file,
                   job, points_buffer, record_count, lastFlush, legacy>>

MappingNext == ApplyFieldMapping

MappingSpec == MappingInit /\ [][MappingNext]_vars

\* ------------------------------------------------------------------------
\* The processing of one file by the legacy TDriveImporter
\* ------------------------------------------------------------------------
\* the longest file processed by the legacy importer in the model
MaxLegacyLines == 2
\* TDriveImporter.BATCH_SIZE (1000 in the code)
BATCH_SIZE == 2

\* the validation constants of the class, in units of 1e-5 degree
MIN_LONGITUDE == -18000000
MAX_LONGITUDE == 18000000
MIN_LATITUDE == -9000000
MAX_LATITUDE == 9000000
BEIJING_BBOX ==
    [min_lon |-> 11540000, max_lon |-> 11750000, min_lat |-> 3940000, max_lat |-> 4110000]

\* the float NaN of a pandas column (a missing value)
NaN == -999999999

\* the rows of the files: csv.reader gives [] for an empty line
LegacyRows ==
    { BlankLine,
      ShortLine,
      <<"1", "2024-01-15 08:00:00", "116.40734", "39.90469">>,
      <<"2", "invalid-date", "116.40734", "39.90469">>,
      <<"3", "2024-01-15 08:00:00", "999.0", "39.90469">>,
      <<"1", "2024-01-15 08:00:00", "120.0", "35.0">>,
      <<"1", "2024-01-15 08:00:00", "abc", "39.90469">> }

LegacyFiles == UNION { [1..n -> LegacyRows] : n \in 0..MaxLegacyLines }

\* a TDriveRawPoint built from the line of number `line` of the file
TDriveRawPoint(line, timestamp, longitude, latitude, is_valid) ==
    [line |-> line, timestamp |-> timestamp, longitude |-> longitude,
     latitude |-> latitude, is_valid |-> is_valid]

\* the four range tests of the world bounds
InWorld(longitude, latitude) ==
    /\ MIN_LONGITUDE <= longitude /\ longitude <= MAX_LONGITUDE
    /\ MIN_LATITUDE <= latitude /\ latitude <= MAX_LATITUDE

\* the four range tests of the Beijing bounding box
InBeijing(longitude, latitude) ==
    /\ BEIJING_BBOX.min_lon <= longitude /\ longitude <= BEIJING_BBOX.max_lon
    /\ BEIJING_BBOX.min_lat <= latitude /\ latitude <= BEIJING_BBOX.max_lat

\* _bulk_insert_points(points) on the table of points: bulk_create raises
\* when the database refuses one of the points (those of the lines in
\* `rejected`) and inserts nothing; each point is then saved on its own, and
\* the exception of a save that fails is swallowed
_bulk_insert_points(table, points, rejected) ==
    IF \E k \in 1..Len(points) : points[k].line \in rejected
        THEN table \cup {p \in Range(points) : p.line \notin rejected}
        ELSE table \cup Range(points)

\* _validate_and_parse_line(row, line_num, ...): 'valid', 'point' and the
\* type of the error logged ("" when none is)
_validate_and_parse_line(row, line_num, strict_validation, use_beijing_bbox) ==
    IF Len(row) < 4
        THEN [valid |-> FALSE, point |-> None, error_type |-> "FORMAT_ERROR"]
    ELSE IF Strptime(row[2], "%Y-%m-%d %H:%M:%S") = NoTime
        THEN [valid |-> FALSE, point |-> None, error_type |-> "TIMESTAMP_ERROR"]
    ELSE IF ~(IsFloat(row[3]) /\ IsFloat(row[4]))
        THEN [valid |-> FALSE, point |-> None, error_type |-> "COORDINATE_ERROR"]
    ELSE LET timestamp == Strptime(row[2], "%Y-%m-%d %H:%M:%S")
             longitude == Float(row[3])
             latitude == Float(row[4])
             validation_errors ==
                 ~InWorld(longitude, latitude)
                    \/ (use_beijing_bbox /\ ~InBeijing(longitude, latitude))
         IN  IF validation_errors
               THEN IF strict_validation
                      THEN [valid |-> FALSE, point |-> None,
                            error_type |-> "VALIDATION_ERROR"]
                      ELSE [valid |-> TRUE,
                            point |-> TDriveRawPoint(line_num, timestamp, longitude,
                                                     latitude, FALSE),
                            error_type |-> ""]
               ELSE [valid |-> TRUE,
                     point |-> TDriveRawPoint(line_num, timestamp, longitude, latitude, TRUE),
                     error_type |-> ""]

\* the loop of _process_file from the row of number line_num on, acc holding
\* stats, batch, the table of points and the errors logged
RECURSIVE ProcessRows(_, _, _, _, _, _)
ProcessRows(rows, line_num, acc, strict_validation, use_beijing_bbox, rejected) ==
    IF line_num > Len(rows) THEN acc
    ELSE LET counted == [acc EXCEPT !.stats.total = @ + 1]
             validation_result ==
                 _validate_and_parse_line(rows[line_num], line_num,
                                          strict_validation, use_beijing_bbox)
             batch == Append(acc.batch, validation_result.point)
             after ==
                 IF validation_result.valid
                   THEN IF Len(batch) >= BATCH_SIZE
                          THEN [counted EXCEPT
                                  !.table = _bulk_insert_points(@, batch, rejected),
                                  !.stats.successful = @ + Len(batch),
                                  !.batch = <<>>]
                          ELSE [counted EXCEPT !.batch = batch]
                   ELSE [counted EXCEPT
                           !.stats.failed = @ + 1,
                           !.errors = Append(@, [line_number |-> line_num,
                                        error_type |-> validation_result.error_type])]
         IN  ProcessRows(rows, line_num + 1, after, strict_validation,
                         use_beijing_bbox, rejected)

\* _process_file(file_path, ...): the statistics returned, the points
\* stored and the validation errors logged
_process_file(rows, strict_validation, use_beijing_bbox, rejected) ==
    LET acc == ProcessRows(rows, 1,
                    [stats |-> [total |-> 0, successful |-> 0, failed |-> 0],
                     batch |-> <<>>, table |-> {}, errors |-> <<>>],
                    strict_validation, use_beijing_bbox, rejected)
    IN  IF acc.batch # <<>>
          THEN [done |-> TRUE,
                stats |-> [acc.stats EXCEPT !.successful = @ + Len(acc.batch)],
                stored |-> _bulk_insert_points(acc.table, acc.batch, rejected),
                errors |-> acc.errors]
          ELSE [done |-> TRUE, stats |-> acc.stats, stored |-> acc.table,
                errors |-> acc.errors]

\* pd.read_csv(file_path, header=None, names=[4 columns], dtype=...): empty
\* lines are skipped, a missing or empty field is NaN, a file with no row and
\* a coordinate that is not a number raise; pd.to_datetime(errors='coerce')
\* is applied to the timestamp column (NaT is NoTime)
read_csv(rows) ==
    LET IsRow(i) == rows[i] # BlankLine
        lines == SelectSeq([i \in 1..Len(rows) |-> i], IsRow)
        Field(row, k) == IF k <= Len(row) THEN row[k] ELSE ""
        Coordinate(s) == IF s = "" THEN NaN ELSE Float(s)
        BadCoordinate(s) == s # "" /\ ~IsFloat(s)
    IN  IF lines = <<>>
          THEN [raised |-> "EmptyDataError", df |-> <<>>]
        ELSE IF \E k \in 1..Len(lines) :
                    \/ BadCoordinate(Field(rows[lines[k]], 3))
                    \/ BadCoordinate(Field(rows[lines[k]], 4))
          THEN [raised |-> "ValueError", df |-> <<>>]
        ELSE [raised |-> "",
              df |-> [k \in 1..Len(lines) |->
                        [idx |-> k - 1,
                         line |-> lines[k],
                         timestamp |-> Strptime(Field(rows[lines[k]], 2),
                                                "%Y-%m-%d %H:%M:%S"),
                         longitude |-> Coordinate(Field(rows[lines[k]], 3)),
                         latitude |-> Coordinate(Field(rows[lines[k]], 4))]]]

\* `for i in range(0, len(points), BATCH_SIZE): _bulk_insert_points(batch)`
RECURSIVE InsertBatches(_, _, _, _)
InsertBatches(table, points, i, rejected) ==
    IF i >= Len(points) THEN table
    ELSE LET last == IF i + BATCH_SIZE < Len(points) THEN i + BATCH_SIZE ELSE Len(points)
             batch == SubSeq(points, i + 1, last)
         IN  InsertBatches(_bulk_insert_points(table, batch, rejected), points,
                           i + BATCH_SIZE, rejected)

\* _process_file_pandas(file_path, ...), which falls back on _process_file
\* when the pandas processing raises
_process_file_pandas(rows, strict_validation, use_beijing_bbox, rejected) ==
    LET read == read_csv(rows)
        df == read.df
        valid_mask(row) ==
            /\ row.longitude # NaN /\ row.latitude # NaN
            /\ InWorld(row.longitude, row.latitude)
            /\ use_beijing_bbox => InBeijing(row.longitude, row.latitude)
            /\ row.timestamp # NoTime
        invalid_mask(row) == ~valid_mask(row)
        df_valid == IF strict_validation THEN SelectSeq(df, valid_mask) ELSE df
        df_invalid == IF strict_validation THEN SelectSeq(df, invalid_mask) ELSE <<>>
        points == [k \in 1..Len(df_valid) |->
                      TDriveRawPoint(df_valid[k].line, df_valid[k].timestamp,
                                     df_valid[k].longitude, df_valid[k].latitude,
                                     valid_mask(df_valid[k]))]
    IN  IF read.raised # ""
          THEN _process_file(rows, strict_validation, use_beijing_bbox, rejected)
          ELSE [done |-> TRUE,
                stats |-> [total |-> Len(df), successful |-> Len(points),
                           failed |-> Len(df_invalid)],
                stored |-> InsertBatches({}, points, 0, rejected),
                errors |-> [k \in 1..Len(df_invalid) |->
                              [line_number |-> df_invalid[k].idx + 1,
                               error_type |-> "VALIDATION_ERROR"]]]

\* no result yet
NoResult == [done |-> FALSE]

\* an importer with its settings, a file, and the lines whose point the
\* database refuses
ProcessInit ==
    /\ NoImport
    /\ legacy = NoLegacy
    /\ call \in {[fn |-> "", args |-> "process", file |-> f, strict_validation |-> s,
                  use_beijing_bbox |-> b, rejected |-> r,
                  csv |-> NoResult, pandas |-> NoResult] :
                    f \in LegacyFiles, s \in BOOLEAN, b \in BOOLEAN,
                    r \in SUBSET (1..MaxLegacyLines)}
    /\ call.rejected \subseteq 1..Len(call.file)

\* the file processed line by line (use_pandas false)
ProcessFile ==
    /\ call.fn = "" /\ call.args = "process"
    /\ ~call.csv.done
    /\ call' = [call EXCEPT !.csv = _process_file(call.file, call.strict_validation,
                                        call.use_beijing_bbox, call.rejected)]
    /\ UNCHANGED <<pc, now, store, jobs, errors, dataset, validator, mode, config, file,
                   job, points_buffer, record_count, lastFlush, legacy>>

\* the file processed with pandas (use_pandas true)
ProcessFilePandas ==
    /\ call.fn = "" /\ call.args = "process"
    /\ ~call.pandas.done
    /\ call' = [call EXCEPT !.pandas = _process_file_pandas(call.file,
                                        call.strict_validation, call.use_beijing_bbox,
                                        call.rejected)]
    /\ UNCHANGED <<pc, now, store, jobs, errors, dataset, validator, mode, config, file,
                   job, points_buffer, record_count, lastFlush, legacy>>

ProcessNext ==
    \/ ProcessFile
    \/ ProcessFilePandas

ProcessSpec == ProcessInit /\ [][ProcessNext]_vars

\* ------------------------------------------------------------------------
\* Properties
\* ------------------------------------------------------------------------
\* the persisted status of the job, "" before the row exists
Status == IF JobId \in DOMAIN jobs THEN jobs[JobId].status ELSE ""

\* ------------------------------------------------------------------------
\* An import whose job is cancelled from outside
\* ------------------------------------------------------------------------
\* another process sets the status of the job's row to cancelled while the
\* import is processing
CancelJob ==
    /\ pc \in {"open", "header", "loop"}
    /\ Status = STATUS_PROCESSING
    /\ jobs' = [jobs EXCEPT ![JobId].status = STATUS_CANCELLED]
    /\ UNCHANGED <<pc, now, store, errors, dataset, validator, mode, config, file, job,
                   points_buffer, record_count, lastFlush, call, legacy>>

CancelNext ==
    \/ Next
    \/ CancelJob

CancelSpec == Init /\ [][CancelNext]_vars

\* the rows of the table stored by the job
JobRows == {r \in store : r.job = JobId}

\* the number of data rows (non-empty lines) read from the source
DataRows == Cardinality({i \in 1..Len(file) : file[i] # BlankLine})

\* the batch holds a point whose key is the key of another point of the
\* batch or of a row of the table that is not the row of that point
DuplicateIn(batch, table) ==
    \E i \in 1..Len(batch) :
        \/ \E j \in 1..Len(batch) : j # i /\ Key(batch[j]) = Key(batch[i])
        \/ \E r \in table : /\ Key(r) = Key(batch[i])
                            /\ ~(r.job = batch[i].job /\ r.rec = batch[i].rec)

\* C1: each persisted state of the job satisfies
\* processed_records = successful_records + failed_records.
C1_Conservation ==
    \A id \in DOMAIN jobs :
        jobs[id].processed_records = jobs[id].successful_records + jobs[id].failed_records

\* C2: a job that ends completed has total_records = processed_records.
C2_TotalIsProcessed ==
    Status = STATUS_COMPLETED =>
        jobs[JobId].total_records = jobs[JobId].processed_records

\* C3: the job is created pending, moves to processing before the first
\* record is read, is completed or failed when the import returns, and its
\* status never leaves a terminal state nor goes back.
C3_Lifecycle ==
    /\ Status = ""
    /\ [][ /\ Status = "" => Status' \in {"", STATUS_PENDING}
           /\ Status = STATUS_PENDING => Status' \in {STATUS_PENDING, STATUS_PROCESSING}
           /\ Status = STATUS_PROCESSING =>
                Status' \in {STATUS_PROCESSING, STATUS_COMPLETED, STATUS_FAILED}
           /\ Status \in {STATUS_COMPLETED, STATUS_FAILED} => Status' = Status
           /\ (file' # <<>> \/ record_count' > 0) =>
                Status' \in {STATUS_PROCESSING, STATUS_COMPLETED, STATUS_FAILED}
           /\ pc' = "done" =>
                /\ Status' \in {STATUS_COMPLETED, STATUS_FAILED}
                /\ job'.status = Status' ]_vars

C3_Witness ==
    /\ pc = "done"
    /\ Status = STATUS_FAILED
    /\ record_count > 0

\* C4: after an import that ends completed, the rows stored by the job are
\* as many as successful_records and every buffered point has its row.
C4_AllStored ==
    (pc = "done" /\ job.status = STATUS_COMPLETED) =>
        /\ Cardinality(JobRows) = job.successful_records
        /\ \A i \in 1..Len(points_buffer) :
            \E r \in JobRows : r.rec = points_buffer[i].rec

C4_Witness ==
    /\ pc = "done"
    /\ job.status = STATUS_COMPLETED
    /\ job.successful_records > BatchSize
    /\ lastFlush.count >= 2

\* C5: a flush whose batch holds a duplicate key does not abort: every key
\* of the batch has its row afterwards and the job is not failed.
C5_DuplicateTolerated ==
    (lastFlush.count > 0 /\ DuplicateIn(lastFlush.batch, store)) =>
        /\ \A i \in 1..Len(lastFlush.batch) :
            \E r \in store : Key(r) = Key(lastFlush.batch[i])
        /\ job.status # STATUS_FAILED

\* C6: with skip_header, import_from_csv processes every data row after the
\* header: processed_records is the number of data rows of the file.
C6_HeaderOnlySkipped ==
    (pc = "done" /\ mode = "csv" /\ config.skip_header /\ job.status = STATUS_COMPLETED) =>
        job.processed_records = DataRows

\* C7: an exception raised while one record is processed never stops the
\* file: a job fails only when the source cannot be opened or a flush fails.
C7_RecordErrorsContained ==
    (pc = "done" /\ job.status = STATUS_FAILED) =>
        job.error_message \in {"FileNotFoundError", "IntegrityError"}

\* C8: at the end of an import the error rows of the job are as many as
\* failed_records, one per rejected record and none for an accepted record.
C8_OneErrorPerRejected ==
    pc = "done" =>
        /\ Len(errors) = job.failed_records
        /\ Len(errors) = jobs[JobId].failed_records
        /\ \A i, k \in 1..Len(errors) :
            i # k => errors[i].record_number # errors[k].record_number
        /\ \A i \in 1..Len(errors) :
            /\ errors[i].import_job = JobId
            /\ \A r \in JobRows : r.rec # errors[i].record_number
            /\ \A k \in 1..Len(points_buffer) :
                points_buffer[k].rec # errors[i].record_number

C8_Witness ==
    /\ pc = "done"
    /\ job.failed_records >= 2
    /\ job.successful_records >= 1

C10_FlushIdempotent ==
    [][ (pc = "flush1" /\ pc' = "flush2") =>
            /\ store' = store
            /\ Cardinality(store') = Cardinality(store) ]_vars

C10_Witness ==
    /\ pc = "flush2"
    /\ \E i, j \in 1..Len(points_buffer) :
        i < j /\ Key(points_buffer[i]) = Key(points_buffer[j])
    /\ lastFlush.count = 2

\* C11: for every record and every pair of validator configurations that
\* differ in strict_mode only, a record that validate_gps_point rejects with
\* strict_mode false is rejected with strict_mode true as well.
C11_StrictAcceptsNoMore ==
    call.fn = "validate_gps_point" =>
        (~call.result[FALSE].is_valid => ~call.result[TRUE].is_valid)

\* a record with an error and no warning, rejected in both modes
C11_Witness ==
    /\ call.fn = "validate_gps_point"
    /\ ~call.result[FALSE].is_valid
    /\ ~call.result[TRUE].is_valid
    /\ Len(call.result[FALSE].warnings) = 0
    /\ Len(call.result[FALSE].errors) > 0

\* C12: validate_gps_point accepts a record with no error and no warning in
\* both modes, accepts a record with no error and at least one warning in
\* permissive mode and rejects it in strict mode, and rejects a record with
\* at least one error in both modes.
C12_AcceptMatrix ==
    call.fn = "validate_gps_point" =>
        LET permissive == call.result[FALSE]
            strict == call.result[TRUE]
            e == Len(permissive.errors)
            w == Len(permissive.warnings)
        IN  /\ (e = 0 /\ w = 0) => (permissive.is_valid /\ strict.is_valid)
            /\ (e = 0 /\ w > 0) => (permissive.is_valid /\ ~strict.is_valid)
            /\ e > 0 => (~permissive.is_valid /\ ~strict.is_valid)

\* a record whose only finding is a warning on its speed
C12_Witness ==
    /\ call.fn = "validate_gps_point"
    /\ Len(call.result[FALSE].errors) = 0
    /\ Len(call.result[FALSE].warnings) > 0
    /\ call.result[FALSE].is_valid
    /\ ~call.result[TRUE].is_valid
    /\ call.result[TRUE].errors = call.result[TRUE].warnings

\* C13: whenever validate_gps_point accepts a record, its parsed data holds a
\* longitude in [-180, 180], a latitude in [-90, 90] and a parsed timestamp.
C13_AcceptedIsComplete ==
    call.fn = "validate_gps_point" =>
        \A strict \in BOOLEAN :
            call.result[strict].is_valid =>
                LET parsed == call.result[strict].parsed_data
                IN  /\ {"longitude", "latitude", "timestamp"} \subseteq DOMAIN parsed
                    /\ -18000000 <= parsed["longitude"] /\ parsed["longitude"] <= 18000000
                    /\ -9000000 <= parsed["latitude"] /\ parsed["latitude"] <= 9000000
                    /\ parsed["timestamp"] # NoTime

\* a record accepted with its coordinates on the limits of the range
C13_Witness ==
    /\ call.fn = "validate_gps_point"
    /\ call.result[TRUE].is_valid
    /\ call.result[TRUE].parsed_data["longitude"] = 18000000
    /\ call.result[TRUE].parsed_data["latitude"] = 9000000

\* C14: validate_coordinates accepts (lon, lat) exactly when lon is in
\* [-180, 180], lat is in [-90, 90] and, a bounding box being configured, the
\* point lies inside the box, all limits included.
C14_CoordinatesExact ==
    call.fn = "validate_coordinates" =>
        LET b == call.bounds
            inRange == /\ -18000000 <= call.lon /\ call.lon <= 18000000
                       /\ -9000000 <= call.lat /\ call.lat <= 9000000
            inBox == /\ b[1] <= call.lon /\ call.lon <= b[3]
                     /\ b[2] <= call.lat /\ call.lat <= b[4]
        IN  (call.errors = <<>>) <=> (inRange /\ (b # <<>> => inBox))

\* (2.5, 48.85), inside the range, rejected by the box [2.25, 48.82, 2.42, 48.90]
C14_Witness ==
    /\ call.fn = "validate_coordinates"
    /\ call.bounds = ParisBounds
    /\ call.lon = 250000 /\ call.lat = 4885000
    /\ call.errors = <<"Coordinates outside allowed bounds">>

\* C15: the error_type of each validation error row names the category of
\* the rejection: FORMAT_ERROR for a line with fewer than 4 fields,
\* TIMESTAMP_ERROR for an unparseable timestamp (the coordinates being good),
\* COORDINATE_ERROR for a non-numeric or out-of-range coordinate (the
\* timestamp being good).
C15_ErrorTaxonomy ==
    \A k \in 1..Len(errors) :
        LET e == errors[k]
            raw == e.raw_data
            short == Len(Split(raw)) < 4
            badTime == TryFormats(raw[2], 1) = NoTime
            badCoord ==
                \/ ~(IsFloat(raw[3]) /\ IsFloat(raw[4]))
                \/ ~(-18000000 <= Float(raw[3]) /\ Float(raw[3]) <= 18000000)
                \/ ~(-9000000 <= Float(raw[4]) /\ Float(raw[4]) <= 9000000)
        IN  /\ short => e.error_type = "FORMAT_ERROR"
            /\ (~short /\ badTime /\ ~badCoord) => e.error_type = "TIMESTAMP_ERROR"
            /\ (~short /\ badCoord /\ ~badTime) => e.error_type = "COORDINATE_ERROR"

\* C16: in a directory import a file whose import fails is counted in
\* failed_files and does not stop the run: when import_directory returns,
\* failed_files counts the unreadable files among the files to import,
\* successful_files counts the others, and the points of each of the others
\* are stored.
C16_DirectoryIsolation ==
    legacy.pc = "dir_done" =>
        LET files == Range(legacy.txt_files)
            good == {f \in files : legacy.dir[f] = "good"}
        IN  /\ legacy.stats.failed_files = Cardinality(files \ good)
            /\ legacy.stats.successful_files = Cardinality(good)
            /\ good \subseteq legacy.stored

\* C19: when the source file is missing or unreadable, the single-file
\* import raises nothing to its caller: it returns a failure, with no row
\* stored.
C19_MissingFileReturnsFailure ==
    (legacy.pc = "file_done"
        /\ (legacy.path \notin DOMAIN legacy.dir \/ legacy.dir[legacy.path] = "unreadable"))
    => /\ legacy.result.raised = ""
       /\ ~legacy.result.success
       /\ legacy.stored = {}

\* C17: _apply_field_mapping puts each source field that the mapping names
\* and the record has under its canonical key, puts every other raw field
\* into extra_attributes, and leaves no source field name of the mapping as
\* a top-level key of the result.
C17_MappingComplete ==
    call.fn = "_apply_field_mapping" =>
        LET raw == call.raw_data
            fm == call.field_mapping
            res == call.mapped_data
            extra == IF "extra_attributes" \in DOMAIN res THEN res["extra_attributes"] ELSE <<>>
        IN  /\ \A sf \in DOMAIN fm :
                fm[sf] \in DOMAIN raw => (sf \in DOMAIN res /\ res[sf] = raw[fm[sf]])
            /\ \A k \in DOMAIN raw \ Range(fm) : k \in DOMAIN extra /\ extra[k] = raw[k]
            /\ \A k \in Range(fm) : k \notin DOMAIN res

\* C18: an import that reads its source to the end without an exception
\* ends with the job completed, whatever the number of rejected records.
C18_RejectionsDoNotFail ==
    (pc = "done" /\ job.error_message = "") =>
        /\ Status = STATUS_COMPLETED
        /\ jobs[JobId].failed_records = job.failed_records

\* a source of two records or more, every one of them rejected
C18_Witness ==
    /\ pc = "done"
    /\ Status = STATUS_COMPLETED
    /\ Len(file) >= 2
    /\ \A i \in 1..Len(file) : file[i] # BlankLine
    /\ jobs[JobId].successful_records = 0
    /\ jobs[JobId].failed_records = Len(file)

\* C20: once the job is set to cancelled from outside while the import is
\* processing, the import never overwrites the cancelled status: the status
\* of the job's row stays cancelled.
C20_CancelRespected ==
    [][Status = STATUS_CANCELLED => Status' = STATUS_CANCELLED]_vars

\* C21: in import_text_file, reading a non-blank line with fewer than 4
\* fields writes one error record and increments both failed_records and
\* processed_records by one.
C21_ShortLineCounted ==
    [][(mode = "text" /\ pc = "loop" /\ pc' = "loop"
            /\ Len(file') = Len(file) + 1 /\ file'[Len(file')] = ShortLine)
        => /\ Len(errors') = Len(errors) + 1
           /\ job'.failed_records = job.failed_records + 1
           /\ job'.processed_records = job.processed_records + 1]_vars

\* C22: in import_text_file, reading a blank line changes none of the
\* counters of the job, writes no error record and adds nothing to the
\* buffer or to the store.
C22_BlankLineSkipped ==
    [][(mode = "text" /\ pc = "loop"
            /\ Len(file') = Len(file) + 1 /\ file'[Len(file')] = BlankLine)
        => /\ job' = job
           /\ jobs' = jobs
           /\ errors' = errors
           /\ points_buffer' = points_buffer
           /\ store' = store]_vars

\* a blank line read after a record was counted
C22_Witness ==
    /\ mode = "text"
    /\ pc = "loop"
    /\ Len(file) >= 2
    /\ file[Len(file)] = BlankLine
    /\ job.processed_records = Len(file) - 1

\* C23: for a record with numeric coordinates, a good timestamp and no speed,
\* validated with a bounding box configured: coordinates inside the range
\* [-180, 180] x [-90, 90] but outside the box are accepted in permissive
\* mode and rejected in strict mode; coordinates outside the range are
\* rejected in both modes.
C23_BoxSoftInPermissive ==
    (/\ call.fn = "validate_gps_point"
     /\ "coordinate_bounds" \in DOMAIN call.config
     /\ IsFloat(call.data["longitude"]) /\ IsFloat(call.data["latitude"])
     /\ validate_timestamp(call.data["timestamp"]).valid
     /\ "speed" \notin DOMAIN call.data)
    => LET lon == Float(call.data["longitude"])
           lat == Float(call.data["latitude"])
           b == call.config["coordinate_bounds"]
           inRange == /\ -18000000 <= lon /\ lon <= 18000000
                      /\ -9000000 <= lat /\ lat <= 9000000
           inBox == b[1] <= lon /\ lon <= b[3] /\ b[2] <= lat /\ lat <= b[4]
       IN  /\ (inRange /\ ~inBox) =>
                (call.result[FALSE].is_valid /\ ~call.result[TRUE].is_valid)
           /\ ~inRange =>
                (~call.result[FALSE].is_valid /\ ~call.result[TRUE].is_valid)

\* C24: a record with a negative speed is rejected by validate_gps_point in
\* both modes; a record whose only finding is a speed above the threshold is
\* accepted in permissive mode and rejected in strict mode.
C24_NegativeSpeedIsError ==
    (/\ call.fn = "validate_gps_point"
     /\ "speed" \in DOMAIN call.data
     /\ call.data["speed"] # None
     /\ IsFloat(call.data["speed"]))
    => LET speed == Float(call.data["speed"])
           threshold == DataValidator(call.config).speed_threshold * 100000
           otherwiseGood == Len(call.result[FALSE].errors) = 0
       IN  /\ speed < 0 =>
                (~call.result[FALSE].is_valid /\ ~call.result[TRUE].is_valid)
           /\ (speed > threshold /\ otherwiseGood) =>
                (call.result[FALSE].is_valid /\ ~call.result[TRUE].is_valid)

\* C25: for a coordinate outside [-180, 180] x [-90, 90], validate_coordinates
\* reports range errors only, never an 'outside allowed bounds' error,
\* whatever box is configured.
C25_RangeBeforeBox ==
    (/\ call.fn = "validate_coordinates"
     /\ ~(/\ -18000000 <= call.lon /\ call.lon <= 18000000
          /\ -9000000 <= call.lat /\ call.lat <= 9000000))
    => /\ call.errors # <<>>
       /\ Range(call.errors) \subseteq
            {"Longitude out of valid range [-180, 180]",
             "Latitude out of valid range [-90, 90]"}

\* a longitude above 180 checked with a box configured
C25_Witness ==
    /\ call.fn = "validate_coordinates"
    /\ call.bounds = BeijingBounds
    /\ call.lon = 18000001
    /\ call.lat = 3990469
    /\ call.errors = <<"Longitude out of valid range [-180, 180]">>

\* C26: validate_timestamp returns a datetime unchanged; it rejects, with no
\* parsed value, a missing timestamp and a string that no format parses; for
\* any other string it returns what the first of the formats Y-m-d H:M:S,
\* ISO with T, fractional seconds, D/M/Y, M/D/Y that parses the string gives,
\* so that a string valid both as D/M/Y and as M/D/Y is read as D/M/Y.
C26_FirstFormatWins ==
    call.fn = "validate_timestamp" =>
        LET ts == call.timestamp
            r == call.result
            order == << "%Y-%m-%d %H:%M:%S", "%Y-%m-%dT%H:%M:%S", "%Y-%m-%d %H:%M:%S.%f",
                        "%d/%m/%Y %H:%M:%S", "%m/%d/%Y %H:%M:%S" >>
        IN  IF ts \in DOMAIN DatetimeTable
                THEN r.valid /\ r.parsed = DatetimeTable[ts]
            ELSE IF ts = None \/ \A k \in 1..5 : Strptime(ts, order[k]) = NoTime
                THEN ~r.valid /\ r.parsed = NoTime /\ r.error # ""
            ELSE /\ r.valid
                 /\ \E k \in 1..5 :
                        /\ Strptime(ts, order[k]) = r.parsed
                        /\ r.parsed # NoTime
                        /\ \A j \in 1..(k - 1) : Strptime(ts, order[j]) = NoTime

\* 01/02/2024, valid as D/M/Y and as M/D/Y, read as the 1st of February
C26_Witness ==
    /\ call.fn = "validate_timestamp"
    /\ call.timestamp = "01/02/2024 08:00:00"
    /\ call.result.valid
    /\ call.result.parsed = 45120

\* C27: in the CSV import, each row stored for a record that the validator
\* accepted with one or more warnings has those warnings in its
\* validation_flags, and no error record is written for that record.
C27_WarningsFlagged ==
    mode = "csv" =>
        \A i \in 1..Len(file) :
            LET mapped == _apply_field_mapping(DictRow(CsvHeader, file[i]), CsvHeader,
                                               config.field_mapping)
                res == validate_gps_point(validator, mapped)
            IN  (file[i] # BlankLine /\ res.is_valid /\ res.warnings # <<>>) =>
                    \A r \in JobRows :
                        (r.entity_id = mapped["entity_id"]
                            /\ r.timestamp = res.parsed_data["timestamp"])
                        => /\ r.validation_flags # NoFlags
                           /\ \A k \in 1..Len(errors) : errors[k].record_number # r.rec

\* C28: validate_gps_point rejects a record whose longitude or latitude is
\* missing with the single error 'Missing longitude or latitude', and a
\* record whose longitude or latitude is not numeric with the single error
\* 'Invalid coordinate format', in both modes, with no warning and empty
\* parsed data whatever the timestamp and the speed of the record are.
C28_ImmediateRejection ==
    call.fn = "validate_gps_point" =>
        LET lon == call.data["longitude"]
            lat == call.data["latitude"]
            missing == lon = None \/ lat = None
            nonNumeric == ~missing /\ ~(IsFloat(lon) /\ IsFloat(lat))
        IN  \A strict \in BOOLEAN :
                LET r == call.result[strict]
                IN  /\ missing =>
                        r = [is_valid |-> FALSE, warnings |-> <<>>, parsed_data |-> <<>>,
                             errors |-> <<"Missing longitude or latitude">>]
                    /\ nonNumeric =>
                        r = [is_valid |-> FALSE, warnings |-> <<>>, parsed_data |-> <<>>,
                             errors |-> <<"Invalid coordinate format">>]

\* a record without longitude whose timestamp and speed are bad as well
C28_Witness ==
    /\ call.fn = "validate_gps_point"
    /\ call.data["longitude"] = None
    /\ call.data["timestamp"] = "invalid-date"
    /\ "speed" \in DOMAIN call.data
    /\ call.data["speed"] = "-10.0"
    /\ call.result[TRUE].errors = <<"Missing longitude or latitude">>

\* C29: started_at is set when the job enters processing, before any record
\* is read, and never changes afterwards; a pending job has none of
\* started_at, completed_at and duration_seconds; a processing job has no
\* completed_at and no duration_seconds; a completed or failed job has
\* completed_at >= started_at and duration_seconds = completed_at - started_at.
C29_JobTimes ==
    /\ [](JobId \in DOMAIN jobs =>
            LET j == jobs[JobId]
            IN  /\ j.status = STATUS_PENDING =>
                    (j.started_at = NoTime /\ j.completed_at = NoTime
                        /\ j.duration_seconds = NoTime)
                /\ j.status = STATUS_PROCESSING =>
                    (j.started_at # NoTime /\ j.completed_at = NoTime
                        /\ j.duration_seconds = NoTime)
                /\ j.status \in {STATUS_COMPLETED, STATUS_FAILED} =>
                    (j.started_at # NoTime /\ j.completed_at >= j.started_at
                        /\ j.duration_seconds = j.completed_at - j.started_at)
                /\ file # <<>> => j.started_at # NoTime)
    /\ [][(JobId \in DOMAIN jobs /\ jobs[JobId].started_at # NoTime)
            => jobs'[JobId].started_at = jobs[JobId].started_at]_vars

\* a job completed after records were read, some time after its start
C29_Witness ==
    /\ pc = "done"
    /\ Status = STATUS_COMPLETED
    /\ Len(file) >= 2
    /\ jobs[JobId].completed_at > jobs[JobId].started_at + 2
    /\ jobs[JobId].duration_seconds = jobs[JobId].completed_at - jobs[JobId].started_at

\* C30: every step of a single-file import that inserts a batch also saves
\* the job, so that after the step the persisted processed_records,
\* successful_records and failed_records equal those of the importer's job;
\* and no step ever decreases one of the persisted counts.
C30_ProgressPersisted ==
    [][/\ lastFlush'.count # lastFlush.count =>
            /\ jobs'[JobId].processed_records = job'.processed_records
            /\ jobs'[JobId].successful_records = job'.successful_records
            /\ jobs'[JobId].failed_records = job'.failed_records
       /\ (JobId \in DOMAIN jobs) =>
            /\ jobs'[JobId].processed_records >= jobs[JobId].processed_records
            /\ jobs'[JobId].successful_records >= jobs[JobId].successful_records
            /\ jobs'[JobId].failed_records >= jobs[JobId].failed_records]_vars

\* a full buffer was inserted and the import goes on, its progress saved
C30_Witness ==
    /\ pc = "loop"
    /\ lastFlush.count = 1
    /\ ~lastFlush.raised
    /\ Len(lastFlush.batch) = BatchSize
    /\ jobs[JobId].status = STATUS_PROCESSING
    /\ jobs[JobId].successful_records = BatchSize
    /\ jobs[JobId].processed_records = job.processed_records

\* C31: a validator with bounds configured on the importer before the import
\* is the validator of the import whose config has no 'validation' entry: it
\* is unchanged by the start of the import, which therefore rejects a record
\* outside those bounds.
C31_ValidatorKept ==
    [][(pc = "idle" /\ validator.coordinate_bounds # <<>>)
        => /\ validator' = validator
           /\ ~validate_gps_point(validator',
                    [entity_id |-> "1", timestamp |-> "2024-01-15 08:00:00",
                     longitude |-> "120.0", latitude |-> "35.0"]).is_valid]_vars

\* C32: the buffer of accepted records never holds more than batch_size
\* records and is below batch_size whenever the next record is read (a full
\* buffer is flushed at once); the records buffered after a flush are
\* exactly those accepted since, in source order and after every record of
\* the flushed batch; each batch holds later records than the batch before.
C32_BufferBounded ==
    /\ [](/\ Len(points_buffer) <= BatchSize
          /\ pc \in {"loop", "header"} => Len(points_buffer) < BatchSize
          /\ \A a, b \in 1..Len(points_buffer) :
                a < b => points_buffer[a].rec < points_buffer[b].rec
          /\ (pc \in {"loop", "header"} /\ lastFlush.count > 0)
                => \A a \in 1..Len(points_buffer), b \in 1..Len(lastFlush.batch) :
                      lastFlush.batch[b].rec < points_buffer[a].rec)
    /\ [][(lastFlush'.count # lastFlush.count)
            => /\ (pc' \in {"loop", "header"}) => (points_buffer' = <<>>
                                       /\ Len(lastFlush'.batch) = BatchSize)
               /\ lastFlush.count > 0
                    => \A a \in 1..Len(lastFlush.batch), b \in 1..Len(lastFlush'.batch) :
                          lastFlush.batch[a].rec < lastFlush'.batch[b].rec]_vars

\* a record is buffered after the flush of a full buffer
C32_Witness ==
    /\ pc = "loop"
    /\ lastFlush.count = 1
    /\ ~lastFlush.raised
    /\ Len(lastFlush.batch) = BatchSize
    /\ Len(points_buffer) = 1

\* C33: the record_number of every validation error record is the 1-based
\* position of the rejected line in the source file (for a CSV file, among
\* the lines that follow the header line), and the error records of the job
\* are in increasing record_number order.
C33_RecordNumberIsPosition ==
    /\ \A k \in 1..Len(errors) :
          /\ errors[k].record_number \in 1..Len(file)
          /\ file[errors[k].record_number] = errors[k].raw_data
    /\ \A a, b \in 1..Len(errors) :
          a < b => errors[a].record_number < errors[b].record_number

\* C34: the files import_directory attempts are files of the directory
\* matching *.txt, in sorted order, at most max_files of them when max_files
\* is given (the first ones), and all of them otherwise; total_files is the
\* number of files attempted when it returns.
C34_DirectoryFiles ==
    legacy.pc \in {"dir_loop", "dir_done"} =>
        LET all == SortedTxtFiles(legacy.dir)
            n == Len(legacy.txt_files)
        IN  /\ \A k \in 1..n : legacy.txt_files[k] \in DOMAIN legacy.dir
                                  /\ IsTxt(legacy.txt_files[k])
            /\ n <= Len(all)
            /\ legacy.txt_files = SubSeq(all, 1, n)
            /\ legacy.max_files # NoMaxFiles => n <= legacy.max_files
            /\ legacy.max_files = NoMaxFiles => n = Len(all)
            /\ legacy.stats.total_files = n
            /\ legacy.pc = "dir_done" => legacy.idx - 1 = legacy.stats.total_files

\* the sum of the entry `field` of the results of the files of `files` that
\* import_file imported with success in the directory dir
RECURSIVE SumOfSuccessful(_, _, _)
SumOfSuccessful(dir, files, field) ==
    IF files = <<>> THEN 0
    ELSE LET r == import_file(dir, Head(files))
         IN  (IF r.raised = "" /\ r.success THEN r[field] ELSE 0)
                + SumOfSuccessful(dir, Tail(files), field)

\* C35: while import_directory runs, every file attempted so far is counted
\* once, as successful or as failed (also when import_file raised); when it
\* returns, total_files = successful_files + failed_files, total_points and
\* failed_points are the sums of 'successful' and 'failed' over the files
\* imported with success, and success is true exactly when failed_files = 0.
C35_DirectorySummary ==
    /\ legacy.pc \in {"dir_loop", "dir_done"} =>
          legacy.stats.successful_files + legacy.stats.failed_files = legacy.idx - 1
    /\ legacy.pc = "dir_done" =>
          /\ legacy.stats.total_files
                = legacy.stats.successful_files + legacy.stats.failed_files
          /\ legacy.stats.total_points
                = SumOfSuccessful(legacy.dir, legacy.txt_files, "successful")
          /\ legacy.stats.failed_points
                = SumOfSuccessful(legacy.dir, legacy.txt_files, "failed")
          /\ legacy.result.success = (legacy.stats.failed_files = 0)

\* import_directory has returned after two files whose import raised
C35_Witness ==
    /\ legacy.pc = "dir_done"
    /\ legacy.stats.total_files = 2
    /\ legacy.stats.failed_files = 2
    /\ ~legacy.result.success

C39_AllOrNothing ==
    (legacy.pc = "file_done" /\ legacy.path \in DOMAIN legacy.dir) =>
        /\ legacy.result.raised = ""
        /\ legacy.result.log \in {"completed", "failed"}
        /\ legacy.result.success <=> legacy.result.log = "completed"
        /\ ~legacy.result.success => legacy.stored = {}

====
